---- MODULE Spec2Model ----
(***************************************************************************)
(* The asynchronous effect-processing pipeline of the image editor:        *)
(* upload, apply-effect, the detached processImageWithAI task and the      *)
(* status poll, in its two deployments: the Express router                 *)
(* (api/routes/images.ts) and the serverless handler (apply-effect).       *)
(*                                                                         *)
(* JavaScript runs every handler and every promise continuation to its     *)
(* next await without interleaving.  The apply-effect handler is modelled  *)
(* in three consecutive steps of one turn (create the job, run the task's  *)
(* synchronous prefix, send the response); while the turn is open no other *)
(* action is enabled.  Every other action is one continuation of a task,   *)
(* one event of the environment (generative service, timer) or one whole   *)
(* request handler.                                                        *)
(***************************************************************************)
EXTENDS FiniteSets, Integers, Naturals, Sequences, TLC

(* ---------------------------- bounds ----------------------------------- *)
\* the number of jobs submitted in one run
MaxJobs == 2

JobNames == <<"j1", "j2", "j3", "j4">>
JobIds == {JobNames[n] : n \in 1..MaxJobs}

\* the identifiers uuidv4() gives to uploads
ImageIds == {"i1"}

(* ---------------------------- constants -------------------------------- *)
NoVal == "undefined"
Terminal == {"completed", "failed"}
NonTerminal == {"pending", "processing"}

\* own keys of the EFFECTS object literal
EffectKeys ==
  {"anime_style", "picasso_style", "oil_painting", "frida_effect", "miniature_effect"}

\* property names every object literal inherits from Object.prototype
ProtoKeys == {"constructor", "toString"}

\* EFFECTS[effectType]: a plain property read, which walks the prototype chain
EffectLookup(effectType) ==
  IF effectType \in EffectKeys THEN "descriptor"
  ELSE IF effectType \in ProtoKeys THEN "inherited"
  ELSE NoVal

Truthy(v) == v # NoVal /\ v # ""

\* effectType values a client may send
EffectInputs == {"anime_style", "big_head", "constructor", ""}

\* imageId values a client may send
ImageInputs == ImageIds \cup {"missing-id", "i", ""}

\* the pairs of different strings of the model of which the first is the
\* beginning of the second
ProperPrefixes == {<<"i", "i1">>}

\* String.prototype.startsWith
StartsWith(name, prefix) == prefix = name \/ <<prefix, name>> \in ProperPrefixes

(* ---------------------------- error messages --------------------------- *)
\* An Error is its message text and the set of the substrings, among those
\* the handlers test with String.includes on the lower-cased message, that
\* the text contains.
Err(text, has) == [text |-> text, has |-> has]

\* no error
NoErr == Err(NoVal, {})

\* getGeminiModel: "... GEMINI_API_KEY environment variable is not set ..." and
\* "GOOGLE_API_KEY appears to be invalid (too short ...)", wrapped by the task
\* in "AI service unavailable: ..." (un-ai-lable)
ErrModelUnavailable ==
  Err("AI service unavailable: API key environment variable is not set", {"ai"})
ErrNotFound == Err("Original image not found", {})
ErrTimeout == Err("Gemini API timeout after 20 seconds", {"timeout", "gemini"})
ErrEmptyResponse ==
  Err("Gemini returned empty response - no image generated", {"gemini"})
ErrNoImageData ==
  Err("No image data in Gemini response - AI generation failed", {"gemini", "ai"})
\* "Failed to save processed image: " + writeError (f-ai-led)
ErrSaveNoSpace ==
  Err("Failed to save processed image: ENOSPC: no space left on device", {"ai"})
ErrSaveNoEntry ==
  Err("Failed to save processed image: ENOENT: no such file or directory",
      {"ai", "file"})
WriteErrors == {ErrSaveNoSpace, ErrSaveNoEntry}

\* rejections of generateContent
GeminiErrors ==
  { Err("fetch failed", {"fetch", "ai"}),
    Err("[503 Service Unavailable] The model is overloaded.", {"ai"}) }

\* the cascade with the 'gemini'/'ai' test moved to the front
ErrorCategoryAiFirst(e) ==
  IF e.has \cap {"gemini", "ai"} # {} THEN "ai_service"
  ELSE IF e.has \cap {"api key", "authentication"} # {} THEN "authentication"
  ELSE IF "timeout" \in e.has THEN "timeout"
  ELSE IF e.has \cap {"network", "fetch"} # {} THEN "network"
  ELSE IF e.has \cap {"file", "storage"} # {} THEN "storage"
  ELSE IF e.has \cap {"memory", "heap"} # {} THEN "memory"
  ELSE "unknown"

\* the if/else-if cascade of the Express task's catch block
ErrorCategory(e) ==
  IF e.has \cap {"api key", "authentication"} # {} THEN "authentication"
  ELSE IF "timeout" \in e.has THEN "timeout"
  ELSE IF e.has \cap {"network", "fetch"} # {} THEN "network"
  ELSE IF e.has \cap {"file", "storage"} # {} THEN "storage"
  ELSE IF e.has \cap {"memory", "heap"} # {} THEN "memory"
  ELSE IF e.has \cap {"gemini", "ai"} # {} THEN "ai_service"
  ELSE "unknown"

\* job.error = `[${errorCategory.toUpperCase()}] ${userFriendlyMessage}`
UserFriendlyMessage(e) ==
  CASE ErrorCategory(e) = "authentication" ->
         "[AUTHENTICATION] API authentication failed. Please check environment variables."
    [] ErrorCategory(e) = "timeout" ->
         "[TIMEOUT] Request timed out. Please try again."
    [] ErrorCategory(e) = "network" ->
         "[NETWORK] Network error occurred. Please check your connection."
    [] ErrorCategory(e) = "storage" ->
         "[STORAGE] File storage error. Please try uploading again."
    [] ErrorCategory(e) = "memory" ->
         "[MEMORY] Memory limit exceeded. Please try with a smaller image."
    [] ErrorCategory(e) = "ai_service" ->
         "[AI_SERVICE] AI service error. Please try again later."
    [] OTHER ->
         "[UNKNOWN] An unexpected error occurred during image processing"

(* ---------------------------- state ------------------------------------ *)
VARIABLES
  deploy,     \* which variant runs: "express" or "serverless"
  apiKey,     \* the API key in process.env: "unset", "short" or "valid"
  genAI,      \* the lazily initialised client (module variable genAI) is set
  files,      \* the uploads directory: a set of file records
  jobs,       \* processingJobs: job id -> ProcessingJob
  tasks,      \* the calls of processImageWithAI: task number -> its frame
  turn,       \* the apply-effect handler turn in progress, if any
  response,   \* job id -> the reply apply-effect sent for it
  writers,    \* job id -> the tasks that have written the job's record
  client      \* the Editor page: its React state and its status requests in flight

vars == <<deploy, apiKey, genAI, files, jobs, tasks, turn, response, writers, client>>

\* paths and URLs are tuples of their parts; <<>> is an unset one
NoPath == <<>>

NoFile ==
  [kind |-> NoVal, id |-> NoVal, ext |-> NoVal, enc |-> NoVal,
   w |-> 0, h |-> 0, same |-> FALSE, of |-> NoVal]

IdleTurn == [pc |-> "idle", job |-> NoVal, imageId |-> NoVal, effectType |-> NoVal]

\* an HTTP reply: status code, error text, the id it carries
Reply(code, error, id) == [code |-> code, error |-> error, id |-> id]

NoReply == Reply(0, NoVal, NoVal)

\* const job: ProcessingJob = { id, status: 'pending', progress: 0, createdAt }
NewJob ==
  [status |-> "pending", progress |-> 0, originalImagePath |-> NoPath,
   resultImagePath |-> NoPath, error |-> NoVal, completedAt |-> FALSE]

\* the frame of one call of processImageWithAI(jobId, imageId, effectType),
\* with the promise of its generateContent call (gem), its timer and the
\* Promise.race of the two
NewTask(j, imageId, effectType) ==
  [job |-> j, imageId |-> imageId, effectType |-> effectType, pc |-> "start",
   found |-> NoFile, buffer |-> NoVal, filter |-> NoVal,
   gem |-> "none", timer |-> "none", race |-> "none"]

\* a settled promise whose value has been read, or has no reader
Spent(gem) == IF gem \in {"resolved", "rejected"} THEN "settled" ELSE gem

\* a frame whose function has returned holds nothing any more; the promise of
\* the call and the timer outlive it
Returned(frame) ==
  [NewTask(frame.job, NoVal, NoVal) EXCEPT
     !.pc = "done", !.gem = Spent(frame.gem), !.timer = frame.timer,
     !.race = frame.race]

\* the frame once imageId and effectType have been read for the last time
Used(frame) == [frame EXCEPT !.imageId = NoVal, !.effectType = NoVal]

EmptyMap == [x \in {} |-> NoVal]

\* the Editor page once a file and an effect are selected: isProcessing,
\* processingJob (its id and status) and processedImageUrl as useState sets
\* them; pc is the position of handleApplyEffect; inflight holds the status
\* replies on their way to the page (equal replies are kept once)
NewClient ==
  [pc |-> "ready", isProcessing |-> FALSE, imageId |-> NoVal, job |-> NoVal,
   status |-> NoVal, url |-> NoPath, inflight |-> {}]

Init ==
  /\ deploy \in {"express", "serverless"}
  /\ apiKey \in {"unset", "short", "valid"}
  /\ genAI = FALSE
  /\ files = {}
  /\ jobs = EmptyMap
  /\ tasks = EmptyMap
  /\ turn = IdleTurn
  /\ response = EmptyMap
  /\ writers = EmptyMap
  /\ client = NewClient

Idle == turn.pc = "idle"

\* getGeminiModel(): throws when the client is not yet initialised and the key
\* is unset or shorter than 20 characters; otherwise the client is set.
GetGeminiModelThrows(initialised, key) == ~initialised /\ key # "valid"

\* uuidv4(): an identifier not in use
uuidv4(pool, used) ==
  IF pool \subseteq used THEN {}
  ELSE {CHOOSE id \in pool \ used : TRUE}

(* ---------------------------- upload ----------------------------------- *)
\* what a client may send in the runs of the whole pipeline: the declared
\* mimetype, the extension of the original name, the format of the bytes and
\* the pixel dimensions
UploadMimes == {"image/png", "image/gif"}
UploadExts == {".png", ""}
ByteFormats == {"png", "garbage"}
UploadDims == {<<800, 600>>, <<4096, 2048>>}

\* what a client may send in the runs of the upload handler alone
AllMimes == {"image/jpeg", "image/png", "image/gif"}
AllExts == {".png", ".jpg", ""}
AllFormats == {"jpeg", "png", "gif", "garbage"}
AllDims == {<<800, 600>>, <<2048, 1024>>, <<2049, 3>>, <<4096, 2048>>, <<1000, 3000>>}

\* multer fileFilter
allowedTypes == {"image/jpeg", "image/png", "image/webp"}

\* formats sharp(buffer).metadata() decodes
Decodable == {"jpeg", "png", "webp", "gif"}

\* "Resize if too large (max 2048px on longest side)"
MaxDimension == 2048

Max(a, b) == IF a >= b THEN a ELSE b

\* Math.round(a / b) for positive integers
RoundDiv(a, b) == (2 * a + b) \div (2 * b)

\* resize(2048, 2048, { fit: 'inside', withoutEnlargement: true }): the longer
\* side becomes 2048, the other is scaled by the same factor and rounded, and
\* is no less than one pixel
Resize(w, h) ==
  IF Max(w, h) <= MaxDimension THEN <<w, h>>
  ELSE IF w >= h THEN <<MaxDimension, Max(1, RoundDiv(h * MaxDimension, w))>>
  ELSE <<Max(1, RoundDiv(w * MaxDimension, h)), MaxDimension>>

\* an upload that re-encodes every image, resized or not
NormalizeAlways(format, w, h) ==
  [enc |-> "jpeg", w |-> Resize(w, h)[1], h |-> Resize(w, h)[2], same |-> FALSE]

\* processedBuffer of the upload handlers: the uploaded bytes as they are
\* (same), or resized and re-encoded with .jpeg({ quality: 85 }) when the
\* longest side exceeds 2048
Normalize(format, w, h) ==
  IF Max(w, h) > MaxDimension
    THEN [enc |-> "jpeg", w |-> Resize(w, h)[1], h |-> Resize(w, h)[2],
          same |-> FALSE]
    ELSE [enc |-> format, w |-> w, h |-> h, same |-> TRUE]

\* a stored upload `${imageId}${fileExtension}`: its name (id, ext), the
\* encoding and dimensions of its bytes, and whether they are the bytes sent
UploadFile(id, ext, n) ==
  [kind |-> "upload", id |-> id, ext |-> ext, enc |-> n.enc,
   w |-> n.w, h |-> n.h, same |-> n.same, of |-> id]

\* a result file whose name does not depend on the job
ResultFileShared(kind, j, enc) ==
  [kind |-> kind, id |-> "result", ext |-> ".jpg", enc |-> enc,
   w |-> 0, h |-> 0, same |-> FALSE, of |-> j]

\* `processed_${jobId}.jpg` (Express), `generated_${jobId}.jpg` (serverless),
\* holding the output of job `of`
ResultFile(kind, j, enc) ==
  [kind |-> kind, id |-> j, ext |-> ".jpg", enc |-> enc,
   w |-> 0, h |-> 0, same |-> FALSE, of |-> j]

\* fs.writeFile(path, data): a file of that name is replaced
WriteFile(dir, f) ==
  {g \in dir : ~(g.kind = f.kind /\ g.id = f.id /\ g.ext = f.ext)} \cup {f}

\* the name of a file in the uploads directory, in parts
FileName(f) ==
  IF f.kind = "upload" THEN <<f.id, f.ext>>
  ELSE IF f.kind = "processed" THEN <<"processed_", f.id, f.ext>>
  ELSE <<"generated_", f.id, f.ext>>

UploadedIds == {f.id : f \in {g \in files : g.kind = "upload"}}

\* the reply of POST /upload to a request that stores nothing, NoReply when
\* the image is stored: multer's errors (size limit, fileFilter) go to the app's
\* error middleware (Express) or the handler's catch (serverless); an
\* undecodable buffer throws 'Invalid image format or corrupted image'
UploadRejection(mimetype, format, tooLarge) ==
  IF tooLarge \/ mimetype \notin allowedTypes
    THEN IF deploy = "express" THEN Reply(500, "Server internal error", NoVal)
         ELSE Reply(500, "Failed to upload image", NoVal)
  ELSE IF format \notin Decodable
    THEN IF deploy = "express"
           THEN Reply(400, "Invalid file type. Please upload a JPEG, PNG, or WebP image.",
                      NoVal)
           ELSE Reply(500, "Failed to upload image", NoVal)
  ELSE NoReply

\* the reply of POST /upload once the image is stored: the imageId and
\* sharp(processedBuffer).metadata()
UploadReply(id, f) ==
  [code |-> 200, imageId |-> id, format |-> f.enc, width |-> f.w, height |-> f.h]

\* POST /upload (no more requests than there are identifiers)
Upload(mimetype, ext, format, w, h, tooLarge) ==
  /\ Idle
  /\ \E id \in uuidv4(ImageIds, UploadedIds) :
       IF UploadRejection(mimetype, format, tooLarge) # NoReply
         THEN UNCHANGED files
         ELSE files' = WriteFile(files, UploadFile(id, ext, Normalize(format, w, h)))
  /\ UNCHANGED <<deploy, apiKey, genAI, jobs, tasks, turn, response, writers>>

(* ---------------------------- apply-effect ----------------------------- *)
\* apply-effect without "Validate environment first"
ApplyEffectRejectionUnvalidated(imageId, effectType) ==
  IF ~Truthy(imageId) \/ ~Truthy(effectType)
    THEN Reply(400, "Missing imageId or effectType", NoVal)
  ELSE IF ~Truthy(EffectLookup(effectType))
    THEN Reply(400, "Invalid effect type", NoVal)
  ELSE NoReply

\* the reply of POST /apply-effect to a request it rejects, NoReply when it
\* goes on to create a job
ApplyEffectRejection(imageId, effectType) ==
  IF GetGeminiModelThrows(genAI, apiKey)
    THEN Reply(500, "AI service configuration error", NoVal)
  ELSE IF ~Truthy(imageId) \/ ~Truthy(effectType)
    THEN Reply(400, "Missing imageId or effectType", NoVal)
  ELSE IF ~Truthy(EffectLookup(effectType))
    THEN Reply(400, "Invalid effect type", NoVal)
  ELSE NoReply

\* POST /apply-effect up to processingJobs.set(jobId, job)
ApplyEffect(imageId, effectType) ==
  /\ Idle
  /\ genAI' = (genAI \/ ~GetGeminiModelThrows(genAI, apiKey))
  /\ IF ApplyEffectRejection(imageId, effectType) # NoReply
       THEN UNCHANGED <<jobs, turn, writers>>
       ELSE \E j \in uuidv4(JobIds, DOMAIN jobs) :
            /\ jobs' = jobs @@ (j :> NewJob)
            /\ writers' = writers @@ (j :> {})
            /\ turn' = [pc |-> "created", job |-> j,
                        imageId |-> imageId, effectType |-> effectType]
  /\ UNCHANGED <<deploy, apiKey, files, tasks, response>>

\* a write through a `job` variable shared by all tasks: it reaches the record
\* of the job created last
WriteJobShared(t, j, rec) ==
  LET k == JobNames[Cardinality(DOMAIN jobs)]
  IN /\ jobs' = [jobs EXCEPT ![k] = rec]
     /\ writers' = [writers EXCEPT ![k] = @ \cup {t}]

\* a write of task t to the record of job j
WriteJob(t, j, rec) ==
  /\ jobs' = [jobs EXCEPT ![j] = rec]
  /\ writers' = [writers EXCEPT ![j] = @ \cup {t}]

\* a catch block that also resets the progress
FailedReset(job, e) ==
  IF deploy = "express"
    THEN [job EXCEPT !.status = "failed", !.error = UserFriendlyMessage(e),
                     !.completedAt = TRUE, !.progress = 0]
    ELSE [job EXCEPT !.status = "failed", !.error = e.text, !.progress = 0]

\* the catch block of processImageWithAI
Failed(job, e) ==
  IF deploy = "express"
    THEN [job EXCEPT !.status = "failed", !.error = UserFriendlyMessage(e),
                     !.completedAt = TRUE]
    ELSE [job EXCEPT !.status = "failed", !.error = e.text]

\* the first await of the task: `await import('fs')` or `await fs.readdir`
FirstAwait == IF deploy = "express" THEN "import" ELSE "readdir"

\* a task with no await before its source lookup: a missing source fails the
\* job within the handler's turn
StartTaskSyncLookup ==
  /\ turn.pc = "created"
  /\ LET t == Cardinality(DOMAIN tasks) + 1
         j == turn.job
         frame == NewTask(j, turn.imageId, turn.effectType)
     IN IF turn.imageId \notin UploadedIds
          THEN /\ tasks' = tasks @@ (t :> Returned(frame))
               /\ WriteJob(t, j, Failed([jobs[j] EXCEPT !.status = "processing",
                                                        !.progress = 10],
                                        ErrNotFound))
          ELSE /\ tasks' = tasks @@ (t :> [frame EXCEPT !.pc = FirstAwait])
               /\ WriteJob(t, j, [jobs[j] EXCEPT !.status = "processing",
                                                  !.progress = 10])
  /\ genAI' = TRUE
  /\ turn' = [turn EXCEPT !.pc = "spawned"]
  /\ UNCHANGED <<deploy, apiKey, files, response>>

\* a task that awaits before "Update job status": the handler's turn ends with
\* the job still pending
StartTaskAwaitFirst ==
  /\ turn.pc = "created"
  /\ LET t == Cardinality(DOMAIN tasks) + 1
         frame == NewTask(turn.job, turn.imageId, turn.effectType)
     IN tasks' = tasks @@ (t :> frame)
  /\ turn' = [turn EXCEPT !.pc = "spawned"]
  /\ UNCHANGED <<deploy, apiKey, genAI, files, jobs, response, writers>>

\* processImageWithAI(jobId, imageId, effectType) called by the handler: the
\* task runs synchronously to its first await
StartTask ==
  /\ turn.pc = "created"
  /\ LET t == Cardinality(DOMAIN tasks) + 1
         j == turn.job
         frame == NewTask(j, turn.imageId, turn.effectType)
     IN IF GetGeminiModelThrows(genAI, apiKey)
          THEN /\ tasks' = tasks @@ (t :> Returned(frame))
               /\ WriteJob(t, j, Failed(jobs[j], ErrModelUnavailable))
               /\ UNCHANGED genAI
          ELSE /\ genAI' = TRUE
               /\ tasks' = tasks @@ (t :> [frame EXCEPT !.pc = FirstAwait])
               /\ WriteJob(t, j, [jobs[j] EXCEPT !.status = "processing",
                                                  !.progress = 10])
  /\ turn' = [turn EXCEPT !.pc = "spawned"]
  /\ UNCHANGED <<deploy, apiKey, files, response>>

\* res.json({ success: true, jobId, estimatedTime: 30 })
SendResponse ==
  /\ turn.pc = "spawned"
  /\ response' = response @@ (turn.job :> Reply(200, NoVal, turn.job))
  /\ turn' = IdleTurn
  /\ UNCHANGED <<deploy, apiKey, genAI, files, jobs, tasks, writers>>

(* ---------------------------- the task --------------------------------- *)
Await(t, pc) == t \in DOMAIN tasks /\ Idle /\ tasks[t].pc = pc

\* the task's catch block: the job fails and the function returns
Throw(t, e) ==
  /\ WriteJob(t, tasks[t].job, Failed(jobs[tasks[t].job], e))
  /\ tasks' = [tasks EXCEPT ![t] = Returned(@)]

\* job.progress = p; processingJobs.set(jobId, job), then the next await
Progress(t, p, frame) ==
  /\ WriteJob(t, tasks[t].job, [jobs[tasks[t].job] EXCEPT !.progress = p])
  /\ tasks' = [tasks EXCEPT ![t] = frame]

\* generateContent([{ inlineData: { data, mimeType } }, prompt]): the request
\* is made of an image that was read and an effect the registry answers for
GenerateContent(file, mimeType, effectType) ==
  /\ file \in files
  /\ mimeType \in allowedTypes
  /\ Truthy(EffectLookup(effectType))

\* const extensions = ['.jpeg', '.jpg', '.png', '.webp']
extensions == <<".jpeg", ".jpg", ".png", ".webp">>

Exists(imageId, ext) ==
  \E f \in files : f.kind = "upload" /\ f.id = imageId /\ f.ext = ext

\* the first extension, in the order tried, under which the image exists; 0 if none
RECURSIVE FirstFound(_, _)
FirstFound(imageId, k) ==
  IF k > Len(extensions) THEN 0
  ELSE IF Exists(imageId, extensions[k]) THEN k
  ELSE FirstFound(imageId, k + 1)

ExtMimeType(ext) ==
  IF ext = ".png" THEN "image/png"
  ELSE IF ext = ".webp" THEN "image/webp"
  ELSE "image/jpeg"

\* Express, after `await import(...)`: look the source up, report progress 20,
\* 30 and 40, arm the timer, call generateContent with the image, its mimeType
\* and the effect's prompt, and await the race; none of the four is read again
ExpressLoad(t) ==
  /\ deploy = "express"
  /\ Await(t, "import")
  /\ LET k == FirstFound(tasks[t].imageId, 1)
     IN IF k = 0
          THEN Throw(t, ErrNotFound)
          ELSE LET f == CHOOSE g \in files : /\ g.kind = "upload"
                                             /\ g.id = tasks[t].imageId
                                             /\ g.ext = extensions[k]
                   j == tasks[t].job
               IN /\ WriteJob(t, j,
                       [jobs[j] EXCEPT
                          !.originalImagePath = <<"uploads:", f.id, f.ext>>,
                          !.progress = 40])
                  /\ GenerateContent(f, ExtMimeType(f.ext), tasks[t].effectType)
                  /\ tasks' = [tasks EXCEPT ![t] =
                       [Used(@) EXCEPT !.pc = "race", !.timer = "armed",
                                       !.gem = "inflight", !.race = "pending"]]
  /\ UNCHANGED <<deploy, apiKey, genAI, files, turn, response>>

\* Express, the same step when the file found by fs.existsSync is removed
\* before fs.readFileSync opens it: the read throws inside the try of its
\* extension and the loop goes on; an upload is stored under one extension, so
\* no other extension holds the image
ExpressLoadVanished(t) ==
  /\ deploy = "express"
  /\ Await(t, "import")
  /\ LET k == FirstFound(tasks[t].imageId, 1)
     IN /\ k # 0
        /\ files' = {f \in files : ~(/\ f.kind = "upload"
                                      /\ f.id = tasks[t].imageId
                                      /\ f.ext = extensions[k])}
        /\ FirstFound(tasks[t].imageId, k + 1) = 0
        /\ Throw(t, ErrNotFound)
  /\ UNCHANGED <<deploy, apiKey, genAI, turn, response>>

\* serverless, after `await fs.readdir('/tmp')`:
\* files.find(file => file.startsWith(imageId)), progress 20
ServerlessFind(t) ==
  /\ deploy = "serverless"
  /\ Await(t, "readdir")
  /\ LET matches == {f \in files : StartsWith(FileName(f)[1], tasks[t].imageId)}
         j == tasks[t].job
     IN IF matches = {}
          THEN Throw(t, ErrNotFound)
          ELSE \E f \in matches :
               /\ WriteJob(t, j,
                    [jobs[j] EXCEPT !.originalImagePath = <<"/tmp", f.id, f.ext>>,
                                    !.progress = 20])
               /\ tasks' = [tasks EXCEPT ![t] =
                    [@ EXCEPT !.pc = "read", !.found = f, !.imageId = NoVal]]
  /\ UNCHANGED <<deploy, apiKey, genAI, files, turn, response>>

ErrReadNoEntry == Err("ENOENT: no such file or directory, open", {"file"})

\* originalFile.toLowerCase().endsWith('.png') ? 'image/png' : 'image/jpeg'
ServerlessMimeType(ext) == IF ext = ".png" THEN "image/png" ELSE "image/jpeg"

\* a read outside the try block: when the file is gone the task ends and the
\* job is left as it was
ServerlessReadUncaught(t) ==
  /\ deploy = "serverless"
  /\ Await(t, "read")
  /\ IF tasks[t].found \in files
       THEN /\ GenerateContent(tasks[t].found,
                               ServerlessMimeType(tasks[t].found.ext),
                               tasks[t].effectType)
            /\ Progress(t, 40, [tasks[t] EXCEPT !.pc = "gemini", !.gem = "inflight"])
       ELSE /\ tasks' = [tasks EXCEPT ![t] = Returned(@)]
            /\ UNCHANGED <<jobs, writers>>
  /\ UNCHANGED <<deploy, apiKey, genAI, files, turn, response>>

\* serverless, after `await fs.readFile(originalPath)`: progress 30 and 40,
\* then `await model.generateContent(...)` with no timer
ServerlessRead(t) ==
  /\ deploy = "serverless"
  /\ Await(t, "read")
  /\ IF tasks[t].found \in files
       THEN /\ GenerateContent(tasks[t].found,
                               ServerlessMimeType(tasks[t].found.ext),
                               tasks[t].effectType)
            /\ Progress(t, 40, [tasks[t] EXCEPT !.pc = "gemini", !.gem = "inflight"])
       ELSE Throw(t, ErrReadNoEntry)
  /\ UNCHANGED <<deploy, apiKey, genAI, files, turn, response>>

(* ---------------------------- environment ------------------------------ *)
\* the generative service answers the call of task t: generateContent resolves
\* or rejects.  Promise.race settles with the first of its two promises to
\* settle; a call that settles after the timer has won has no reader.
GeminiSettle(t, how) ==
  /\ t \in DOMAIN tasks
  /\ Idle
  /\ tasks[t].gem = "inflight"
  /\ how \in {"resolved", "rejected"}
  /\ tasks' = [tasks EXCEPT ![t] =
       IF @.race = "timeout"
         THEN [@ EXCEPT !.gem = "settled"]
         ELSE [@ EXCEPT !.gem = how,
                        !.race = IF @ = "pending" THEN "gemini" ELSE @]]
  /\ UNCHANGED <<deploy, apiKey, genAI, files, jobs, turn, response, writers>>

\* a timer whose rejection is not part of the race
TimerFireUnraced(t) ==
  /\ t \in DOMAIN tasks
  /\ Idle
  /\ tasks[t].timer = "armed"
  /\ tasks' = [tasks EXCEPT ![t].timer = "fired"]
  /\ UNCHANGED <<deploy, apiKey, genAI, files, jobs, turn, response, writers>>

\* a timer whose callback fails the job itself
TimerFireFailsJob(t) ==
  /\ t \in DOMAIN tasks
  /\ Idle
  /\ tasks[t].timer = "armed"
  /\ tasks' = [tasks EXCEPT ![t] =
       [@ EXCEPT !.timer = "fired",
                 !.race = IF @ = "pending" THEN "timeout" ELSE @]]
  /\ WriteJob(t, tasks[t].job, Failed(jobs[tasks[t].job], ErrTimeout))
  /\ UNCHANGED <<deploy, apiKey, genAI, files, turn, response>>

\* setTimeout(() => reject(new Error('Gemini API timeout after 20 seconds')), 20000)
TimerFire(t) ==
  /\ t \in DOMAIN tasks
  /\ Idle
  /\ tasks[t].timer = "armed"
  /\ tasks' = [tasks EXCEPT ![t] =
       [@ EXCEPT !.timer = "fired",
                 !.race = IF @ = "pending" THEN "timeout" ELSE @]]
  /\ UNCHANGED <<deploy, apiKey, genAI, files, jobs, turn, response, writers>>

\* fs.unlink(filePath): a file leaves the directory, removed by the age sweep
\* of an instance that shares the directory or by the platform that owns /tmp
Unlink(f) ==
  /\ Idle
  /\ f \in files
  /\ files' = files \ {f}
  /\ UNCHANGED <<deploy, apiKey, genAI, jobs, tasks, turn, response, writers>>

\* what a resolved call carries: inline image data that sharp decodes, inline
\* data it does not decode, text parts only, no candidates
Contents == {"image", "rawimage", "text", "empty"}

(* ---------------------------- Express: after the race ------------------ *)
\* a task that, after the timer has failed the job, still awaits the call and
\* goes on when it resolves
ExpressAfterRaceUnguarded(t, e) ==
  /\ deploy = "express"
  /\ Await(t, "race")
  /\ tasks[t].race \in {"gemini", "timeout"}
  /\ e \in GeminiErrors
  /\ IF tasks[t].race = "timeout"
       THEN /\ WriteJob(t, tasks[t].job, Failed(jobs[tasks[t].job], ErrTimeout))
            /\ tasks' = [tasks EXCEPT ![t].race =
                          IF tasks[t].gem = "settled" THEN "gemini" ELSE "pending"]
     ELSE IF tasks[t].gem = "rejected" THEN Throw(t, e)
     ELSE Progress(t, 60, [tasks[t] EXCEPT !.pc = "response", !.gem = Spent(@)])
  /\ UNCHANGED <<deploy, apiKey, genAI, files, turn, response>>

\* `await Promise.race([geminiPromise, timeoutPromise])` resumes: it throws the
\* timer's rejection or the call's (e), or reports progress 60 and awaits
\* result.response
ExpressAfterRace(t, e) ==
  /\ deploy = "express"
  /\ Await(t, "race")
  /\ tasks[t].race \in {"gemini", "timeout"}
  /\ e \in GeminiErrors
  /\ IF tasks[t].race = "timeout" THEN Throw(t, ErrTimeout)
     ELSE IF tasks[t].gem = "rejected" THEN Throw(t, e)
     ELSE Progress(t, 60, [tasks[t] EXCEPT !.pc = "response", !.gem = Spent(@)])
  /\ UNCHANGED <<deploy, apiKey, genAI, files, turn, response>>

\* a task that calls generateContent again when the response carries no image
ExpressInspectRetry(t, c) ==
  /\ deploy = "express"
  /\ Await(t, "response")
  /\ c \in Contents
  /\ IF c \in {"empty", "text"}
       THEN /\ tasks' = [tasks EXCEPT ![t] =
                 [@ EXCEPT !.pc = "race", !.gem = "inflight", !.race = "pending"]]
            /\ UNCHANGED <<jobs, writers>>
       ELSE Progress(t, 80, [tasks[t] EXCEPT !.pc = "optimize", !.buffer = c])
  /\ UNCHANGED <<deploy, apiKey, genAI, files, turn, response>>

\* the response (its contents c) is scanned for inline image data; none is an
\* error
ExpressInspect(t, c) ==
  /\ deploy = "express"
  /\ Await(t, "response")
  /\ c \in Contents
  /\ IF c = "empty" THEN Throw(t, ErrEmptyResponse)
     ELSE IF c = "text" THEN Throw(t, ErrNoImageData)
     ELSE Progress(t, 80, [tasks[t] EXCEPT !.pc = "optimize", !.buffer = c])
  /\ UNCHANGED <<deploy, apiKey, genAI, files, turn, response>>

\* sharp(generatedImageBuffer).jpeg({ quality: 90 }).toBuffer(); when sharp
\* cannot decode the bytes they are kept as they are
Optimized(buffer) == IF buffer = "image" THEN "jpeg" ELSE "raw"

ExpressOptimize(t) ==
  /\ deploy = "express"
  /\ Await(t, "optimize")
  /\ Progress(t, 90, [tasks[t] EXCEPT !.pc = "persist",
                                      !.buffer = Optimized(tasks[t].buffer)])
  /\ UNCHANGED <<deploy, apiKey, genAI, files, turn, response>>

\* a completion that leaves resultImagePath unset
CompletedNoResult(job, path) ==
  [job EXCEPT !.status = "completed", !.progress = 100, !.completedAt = TRUE]

\* "Complete the job"
Completed(job, path) ==
  [job EXCEPT !.status = "completed", !.progress = 100,
              !.resultImagePath = path, !.completedAt = TRUE]

\* mkdir and writeFile of processed_<jobId>.jpg, then the job completes; a
\* failing write is rethrown as 'Failed to save processed image: ...'
ExpressPersist(t, e) ==
  /\ deploy = "express"
  /\ Await(t, "persist")
  /\ e \in WriteErrors \cup {NoErr}
  /\ IF e = NoErr
       THEN /\ files' = WriteFile(files,
                           ResultFile("processed", tasks[t].job, tasks[t].buffer))
            /\ WriteJob(t, tasks[t].job,
                 Completed(jobs[tasks[t].job], <<"cache:", tasks[t].job>>))
            /\ tasks' = [tasks EXCEPT ![t] = Returned(@)]
       ELSE /\ Throw(t, e)
            /\ UNCHANGED files
  /\ UNCHANGED <<deploy, apiKey, genAI, turn, response>>

(* ---------------------------- serverless: after the call --------------- *)
\* `await model.generateContent(...)` resumes
ServerlessAfterGemini(t, e) ==
  /\ deploy = "serverless"
  /\ Await(t, "gemini")
  /\ tasks[t].gem \in {"resolved", "rejected"}
  /\ e \in GeminiErrors
  /\ IF tasks[t].gem = "rejected" THEN Throw(t, e)
     ELSE Progress(t, 60, [tasks[t] EXCEPT !.pc = "response", !.gem = Spent(@)])
  /\ UNCHANGED <<deploy, apiKey, genAI, files, turn, response>>

\* the response (its contents c) is scanned; progress 80; then sharp optimizes
\* the generated image or filters the source
ServerlessInspect(t, c) ==
  /\ deploy = "serverless"
  /\ Await(t, "response")
  /\ c \in Contents
  /\ Progress(t, 80,
       IF c \in {"image", "rawimage"}
         THEN [Used(tasks[t]) EXCEPT !.pc = "optimize", !.buffer = c]
         ELSE [tasks[t] EXCEPT !.pc = "fallback"])
  /\ UNCHANGED <<deploy, apiKey, genAI, files, turn, response>>

ServerlessOptimize(t) ==
  /\ deploy = "serverless"
  /\ Await(t, "optimize")
  /\ Progress(t, 90, [tasks[t] EXCEPT !.pc = "write",
                                      !.buffer = Optimized(tasks[t].buffer)])
  /\ UNCHANGED <<deploy, apiKey, genAI, files, turn, response>>

\* switch (effectType): the parameter set of the fallback filters
FallbackFilter(effectType) ==
  IF effectType \in {"big_head", "artistic_style", "aging"} THEN effectType
  ELSE "default"

ErrSharpInput == Err("Input buffer contains unsupported image format", {})

\* sharp(imageBuffer)...toBuffer(): the output keeps the encoding of the input
ServerlessFallback(t) ==
  /\ deploy = "serverless"
  /\ Await(t, "fallback")
  /\ IF tasks[t].found.enc \in Decodable
       THEN Progress(t, 90,
              [Used(tasks[t]) EXCEPT
                 !.pc = "write", !.buffer = tasks[t].found.enc,
                 !.filter = FallbackFilter(tasks[t].effectType)])
       ELSE Throw(t, ErrSharpInput)
  /\ UNCHANGED <<deploy, apiKey, genAI, files, turn, response>>

ErrWriteNoSpace == Err("ENOSPC: no space left on device, write", {})

\* fs.writeFile of generated_<jobId>.jpg, then the job completes
ServerlessWrite(t, e) ==
  /\ deploy = "serverless"
  /\ Await(t, "write")
  /\ e \in {ErrWriteNoSpace, NoErr}
  /\ IF e = NoErr
       THEN /\ files' = WriteFile(files,
                           ResultFile("generated", tasks[t].job, tasks[t].buffer))
            /\ WriteJob(t, tasks[t].job,
                 Completed(jobs[tasks[t].job],
                           <<"/tmp", "generated_", tasks[t].job, ".jpg">>))
            /\ tasks' = [tasks EXCEPT ![t] = Returned(@)]
       ELSE /\ Throw(t, e)
            /\ UNCHANGED files
  /\ UNCHANGED <<deploy, apiKey, genAI, turn, response>>

(* ---------------------------- status poll ------------------------------ *)
\* path.basename
Basename(path) == SubSeq(path, 2, Len(path))

\* the resultUrl of the status reply
ResultUrl(job) ==
  IF job.resultImagePath = NoPath THEN NoPath
  ELSE IF deploy = "express" /\ job.resultImagePath[1] = "cache:"
    THEN <<"/api/images/processed/">> \o Basename(job.resultImagePath)
    ELSE <<"/api/images/file/">> \o Basename(job.resultImagePath)

\* the reply of GET /status/:jobId
StatusReply(id) ==
  IF id \in DOMAIN jobs
    THEN [code |-> 200, status |-> jobs[id].status, progress |-> jobs[id].progress,
          resultUrl |-> ResultUrl(jobs[id]), error |-> jobs[id].error]
    ELSE [code |-> 404, status |-> NoVal, progress |-> -1,
          resultUrl |-> NoPath, error |-> "Job not found"]

PollIds == JobIds \cup {"no-such-job"}

\* a poll that drops the record of a finished job once it has been read
PollEvicting(id) ==
  /\ Idle
  /\ StatusReply(id).code \in {200, 404}
  /\ IF id \in DOMAIN jobs /\ jobs[id].status \in Terminal
       THEN jobs' = [j \in DOMAIN jobs \ {id} |-> jobs[j]]
       ELSE UNCHANGED jobs
  /\ UNCHANGED <<deploy, apiKey, genAI, files, tasks, turn, response, writers>>

\* GET /status/:jobId: a read of the job table
Poll(id) ==
  /\ Idle
  /\ StatusReply(id).code \in {200, 404}
  /\ UNCHANGED vars

(* ---------------------------- byte-serving routes ---------------------- *)
\* a reply that carries the bytes of a file: whose bytes they are, their
\* encoding and the Content-Type header
Served(f, contentType) ==
  [code |-> 200, of |-> f.of, enc |-> f.enc, contentType |-> contentType]

NotServed(error) == [code |-> 404, of |-> NoVal, enc |-> NoVal, contentType |-> error]

\* mimeTypes[ext] || 'application/octet-stream'
mimeTypes(ext) ==
  IF ext \in {".jpg", ".jpeg"} THEN "image/jpeg"
  ELSE IF ext = ".png" THEN "image/png"
  ELSE IF ext = ".webp" THEN "image/webp"
  ELSE "application/octet-stream"

\* GET /processed/:jobId (Express): the file processed_<jobId>.jpg
ServeProcessed(jobId) ==
  LET hits == {f \in files : FileName(f) = <<"processed_", jobId, ".jpg">>}
  IN IF hits = {} THEN NotServed("Processed image not found")
     ELSE Served(CHOOSE f \in hits : TRUE, "image/jpeg")

\* GET /file/:filename: the file of that name in the uploads directory
ServeFile(filename) ==
  LET hits == {f \in files : FileName(f) = filename}
  IN IF hits = {} THEN NotServed("File not found")
     ELSE LET f == CHOOSE g \in hits : TRUE IN Served(f, mimeTypes(f.ext))

\* a GET of a URL the status reply gave out
Fetch(url) ==
  IF url = NoPath THEN NotServed("API not found")
  ELSE IF url[1] = "/api/images/processed/" THEN ServeProcessed(url[2])
  ELSE ServeFile(Tail(url))

\* a client fetches the result of a job it has polled
FetchResult(j) ==
  /\ Idle
  /\ j \in DOMAIN jobs
  /\ Fetch(StatusReply(j).resultUrl).code = 200
  /\ UNCHANGED vars

(* ---------------------------- the Editor page ------------------------- *)
\* handleApplyEffect up to the upload request: setIsProcessing(true),
\* setProcessedImageUrl(''), setProcessingJob(null).  The button is disabled
\* while isProcessing; a run holds one submission of the page.
ClientClick ==
  /\ client.pc = "ready"
  /\ ~client.isProcessing
  /\ client' = [client EXCEPT !.pc = "upload", !.isProcessing = TRUE,
                               !.url = NoPath, !.job = NoVal, !.status = NoVal]
  /\ UNCHANGED <<deploy, apiKey, genAI, files, jobs, tasks, turn, response, writers>>

\* "Step 1: Upload the image first": the page's PNG is stored and the reply
\* carries its imageId
ClientUpload ==
  /\ client.pc = "upload"
  /\ Upload("image/png", ".png", "png", 800, 600, FALSE)
  /\ client' = [client EXCEPT
       !.pc = "uploaded",
       !.imageId = CHOOSE id \in {f.id : f \in files' \ files} : TRUE]

\* "Step 2: Apply the effect using the imageId"; a reply that is not ok
\* throws: alert, setIsProcessing(false)
ClientApply ==
  /\ client.pc = "uploaded"
  /\ ApplyEffect(client.imageId, "anime_style")
  /\ client' = IF ApplyEffectRejection(client.imageId, "anime_style") # NoReply
                 THEN [client EXCEPT !.pc = "ready", !.isProcessing = FALSE]
                 ELSE [client EXCEPT !.pc = "applying"]

\* the reply of apply-effect arrives:
\* setProcessingJob({ id: effectData.jobId, status: 'processing' })
ClientSubmitted ==
  /\ client.pc = "applying"
  /\ SendResponse
  /\ client' = [client EXCEPT !.pc = "watching", !.job = turn.job,
                               !.status = "processing"]

\* the status-polling effect is active
Polling == client.job # NoVal /\ client.status = "processing"

\* the data of a status reply that the page reads
StatusData(id) ==
  [status |-> StatusReply(id).status, resultUrl |-> StatusReply(id).resultUrl]

\* the interval of the polling effect fires: fetch(`/api/images/status/${id}`),
\* which the status route answers; the reply is on its way
ClientTick ==
  /\ Polling
  /\ Idle
  /\ client' = [client EXCEPT !.inflight = @ \cup {StatusData(client.job)}]
  /\ UNCHANGED <<deploy, apiKey, genAI, files, jobs, tasks, turn, response, writers>>

\* a status reply arrives, in whatever order the network delivers:
\* setProcessingJob(prev => ({ ...prev, ...data })); completed sets the result
\* URL and clears isProcessing, failed clears isProcessing
ClientReceive(data) ==
  /\ data \in client.inflight
  /\ client' = [client EXCEPT
       !.inflight = @ \ {data},
       !.status = IF data.status # NoVal THEN data.status ELSE @,
       !.url = IF data.status = "completed" THEN data.resultUrl ELSE @,
       !.isProcessing = IF data.status \in Terminal THEN FALSE ELSE @]
  /\ UNCHANGED <<deploy, apiKey, genAI, files, jobs, tasks, turn, response, writers>>

(* ---------------------------- specification ---------------------------- *)
TaskIds == 1..MaxJobs

TaskStep(t) ==
  \/ ExpressLoad(t)
  \/ \E e \in GeminiErrors : ExpressAfterRace(t, e)
  \/ \E c \in Contents : ExpressInspect(t, c)
  \/ ExpressOptimize(t)
  \/ \E e \in WriteErrors \cup {NoErr} : ExpressPersist(t, e)
  \/ ServerlessFind(t)
  \/ ServerlessRead(t)
  \/ \E e \in GeminiErrors : ServerlessAfterGemini(t, e)
  \/ \E c \in Contents : ServerlessInspect(t, c)
  \/ ServerlessOptimize(t)
  \/ ServerlessFallback(t)
  \/ \E e \in {ErrWriteNoSpace, NoErr} : ServerlessWrite(t, e)

Request ==
  \/ \E m \in UploadMimes, x \in UploadExts, f \in ByteFormats,
        d \in UploadDims, tooLarge \in BOOLEAN : Upload(m, x, f, d[1], d[2], tooLarge)
  \/ \E i \in ImageInputs, e \in EffectInputs : ApplyEffect(i, e)
  \/ \E id \in PollIds : Poll(id)
  \/ \E j \in JobIds : FetchResult(j)

Next ==
  \/ /\ Request
     /\ UNCHANGED client
  \/ /\ StartTask
     /\ UNCHANGED client
  \/ /\ SendResponse
     /\ UNCHANGED client
  \/ /\ \E t \in TaskIds : TaskStep(t)
     /\ UNCHANGED client
  \/ /\ \E t \in TaskIds, how \in {"resolved", "rejected"} : GeminiSettle(t, how)
     /\ UNCHANGED client
  \/ /\ \E t \in TaskIds : TimerFire(t)
     /\ UNCHANGED client

Spec == Init /\ [][Next]_vars

\* the upload handler alone, over the wider inputs
NextUpload ==
  /\ \E m \in AllMimes, x \in AllExts, f \in AllFormats, d \in AllDims,
        tooLarge \in BOOLEAN : Upload(m, x, f, d[1], d[2], tooLarge)
  /\ UNCHANGED client

UploadSpec == Init /\ [][NextUpload]_vars

\* The event loop runs every continuation that is ready and every handler turn
\* to its end, and a timer that is armed fires; the generative service owes
\* no answer, and no client owes a request.
\* the Express router with a valid API key, under that scheduling
InitExpress == Init /\ deploy = "express" /\ apiKey = "valid"

ExpressTaskStep(t) ==
  \/ ExpressLoad(t)
  \/ \E e \in GeminiErrors : ExpressAfterRace(t, e)
  \/ \E c \in Contents : ExpressInspect(t, c)
  \/ ExpressOptimize(t)
  \/ \E e \in WriteErrors \cup {NoErr} : ExpressPersist(t, e)

NextExpress ==
  \/ /\ Request
     /\ UNCHANGED client
  \/ /\ StartTask
     /\ UNCHANGED client
  \/ /\ SendResponse
     /\ UNCHANGED client
  \/ /\ \E t \in TaskIds : ExpressTaskStep(t)
     /\ UNCHANGED client
  \/ /\ \E t \in TaskIds, how \in {"resolved", "rejected"} : GeminiSettle(t, how)
     /\ UNCHANGED client
  \/ /\ \E t \in TaskIds : TimerFire(t)
     /\ UNCHANGED client

LiveSpec ==
  /\ InitExpress
  /\ [][NextExpress]_vars
  /\ WF_vars(StartTask /\ UNCHANGED client)
  /\ WF_vars(SendResponse /\ UNCHANGED client)
  /\ \A t \in TaskIds : /\ WF_vars(ExpressTaskStep(t) /\ UNCHANGED client)
                        /\ WF_vars(TimerFire(t) /\ UNCHANGED client)

\* the serverless handlers with a valid API key, under the same scheduling;
\* their task arms no timer
InitServerless == Init /\ deploy = "serverless" /\ apiKey = "valid"

ServerlessTaskStep(t) ==
  \/ ServerlessFind(t)
  \/ ServerlessRead(t)
  \/ \E e \in GeminiErrors : ServerlessAfterGemini(t, e)
  \/ \E c \in Contents : ServerlessInspect(t, c)
  \/ ServerlessOptimize(t)
  \/ ServerlessFallback(t)
  \/ \E e \in {ErrWriteNoSpace, NoErr} : ServerlessWrite(t, e)

NextServerless ==
  \/ /\ Request
     /\ UNCHANGED client
  \/ /\ StartTask
     /\ UNCHANGED client
  \/ /\ SendResponse
     /\ UNCHANGED client
  \/ /\ \E t \in TaskIds : ServerlessTaskStep(t)
     /\ UNCHANGED client
  \/ /\ \E t \in TaskIds, how \in {"resolved", "rejected"} : GeminiSettle(t, how)
     /\ UNCHANGED client

LiveSpecServerless ==
  /\ InitServerless
  /\ [][NextServerless]_vars
  /\ WF_vars(StartTask /\ UNCHANGED client)
  /\ WF_vars(SendResponse /\ UNCHANGED client)
  /\ \A t \in TaskIds : WF_vars(ServerlessTaskStep(t) /\ UNCHANGED client)

\* the pipeline over accepted requests only, with a valid API key, in a
\* directory that loses files
InitSweep == Init /\ apiKey = "valid"

NextSweep ==
  \/ /\ Upload("image/png", ".png", "png", 800, 600, FALSE)
     /\ UNCHANGED client
  \/ /\ \E i \in ImageIds : ApplyEffect(i, "anime_style")
     /\ UNCHANGED client
  \/ /\ StartTask
     /\ UNCHANGED client
  \/ /\ SendResponse
     /\ UNCHANGED client
  \/ /\ \E t \in TaskIds : TaskStep(t) \/ ExpressLoadVanished(t)
     /\ UNCHANGED client
  \/ /\ \E t \in TaskIds, how \in {"resolved", "rejected"} : GeminiSettle(t, how)
     /\ UNCHANGED client
  \/ /\ \E t \in TaskIds : TimerFire(t)
     /\ UNCHANGED client
  \/ /\ \E f \in files : Unlink(f)
     /\ UNCHANGED client

SweepSpec == InitSweep /\ [][NextSweep]_vars

\* the Editor page against the Express router: the page's requests, the
\* pipeline, and the page's interval and replies, under the scheduling of
\* LiveSpec; an active interval fires and a reply in flight arrives
InitClient == Init /\ deploy = "express"

StatusDatas ==
  [status : {"processing", "completed", "failed"},
   resultUrl : {NoPath} \cup {<<"/api/images/processed/", j>> : j \in JobIds}]

NextClient ==
  \/ ClientClick
  \/ ClientUpload
  \/ ClientApply
  \/ /\ StartTask
     /\ UNCHANGED client
  \/ ClientSubmitted
  \/ /\ \E t \in TaskIds : ExpressTaskStep(t)
     /\ UNCHANGED client
  \/ /\ \E t \in TaskIds, how \in {"resolved", "rejected"} : GeminiSettle(t, how)
     /\ UNCHANGED client
  \/ /\ \E t \in TaskIds : TimerFire(t)
     /\ UNCHANGED client
  \/ ClientTick
  \/ \E data \in StatusDatas : ClientReceive(data)

ClientSpec ==
  /\ InitClient
  /\ [][NextClient]_vars
  /\ WF_vars(StartTask /\ UNCHANGED client)
  /\ WF_vars(ClientSubmitted)
  /\ \A t \in TaskIds : /\ WF_vars(ExpressTaskStep(t) /\ UNCHANGED client)
                        /\ WF_vars(TimerFire(t) /\ UNCHANGED client)
  /\ WF_vars(ClientTick)
  /\ \A data \in StatusDatas : WF_vars(ClientReceive(data))

(* ---------------------------- properties ------------------------------- *)
TaskOf(j) == {t \in DOMAIN tasks : tasks[t].job = j}

\* status, progress, result reference and error message of a job
Outcome(job) == <<job.status, job.progress, job.resultImagePath, job.error>>

TimeoutMessage == "[TIMEOUT] Request timed out. Please try again."

\* C1: in every step, a job whose status changes goes from pending to
\* processing, from processing to completed or from processing to failed.
C1_StatusTransitions ==
  [][\A j \in DOMAIN jobs :
       jobs'[j].status # jobs[j].status =>
         <<jobs[j].status, jobs'[j].status>> \in
           {<<"pending", "processing">>, <<"processing", "completed">>,
            <<"processing", "failed">>}]_vars

\* one job has run to completed and another to failed
C1_Witness ==
  \E j, k \in DOMAIN jobs :
    jobs[j].status = "completed" /\ jobs[k].status = "failed"

\* C2: no step changes the status, progress, result reference or error
\* message of a job that is completed or failed.
C2_TerminalFrozen ==
  [][\A j \in DOMAIN jobs :
       jobs[j].status \in Terminal => Outcome(jobs'[j]) = Outcome(jobs[j])]_vars

\* a completed job whose timer fired, next to a failed one whose call settled
\* after the timer had won
C2_Witness ==
  \E t, u \in DOMAIN tasks :
    /\ jobs[tasks[t].job].status = "completed" /\ tasks[t].timer = "fired"
    /\ jobs[tasks[u].job].status = "failed" /\ tasks[u].race = "timeout"
    /\ tasks[u].gem = "settled"

\* C3: Express: once the task has resumed from a race the timer won, the job
\* is failed with the timeout message, at the progress and without the result
\* the timeout left, whether or not the call has settled since.
C3_TimeoutFinal ==
  deploy = "express" =>
    \A t \in DOMAIN tasks :
      (tasks[t].race = "timeout" /\ tasks[t].pc = "done") =>
        Outcome(jobs[tasks[t].job]) = <<"failed", 40, NoPath, TimeoutMessage>>

\* the call settled after the timer had failed the job
C3_Witness ==
  \E t \in DOMAIN tasks :
    /\ deploy = "express"
    /\ tasks[t].race = "timeout" /\ tasks[t].pc = "done"
    /\ tasks[t].gem = "settled"

\* C4: Express: the step that finds no inline image data in the response
\* (text only, or no candidates) does not fail the job.
C4_NoImageNotFailed ==
  [][\A t \in DOMAIN tasks : \A c \in {"text", "empty"} :
       ExpressInspect(t, c) => jobs'[tasks[t].job].status # "failed"]_vars

\* C5: a completed job has a result reference and no error message, a failed
\* job an error message and no result reference, a pending or processing job
\* neither; the status reply carries a resultUrl exactly for completed jobs
\* and an error exactly for failed ones.
C5_ResultXorError ==
  \A j \in DOMAIN jobs :
    /\ (jobs[j].resultImagePath # NoPath) = (jobs[j].status = "completed")
    /\ (jobs[j].error # NoVal) = (jobs[j].status = "failed")
    /\ (StatusReply(j).resultUrl # NoPath) = (jobs[j].status = "completed")
    /\ (StatusReply(j).error # NoVal) = (jobs[j].status = "failed")

\* a completed, a failed and a processing job side by side
C5_Witness ==
  \E j, k \in DOMAIN jobs :
    /\ jobs[j].status = "completed" /\ StatusReply(j).resultUrl # NoPath
    /\ jobs[k].status = "failed" /\ StatusReply(k).error # NoVal

\* C6: in every step the progress of every job stays in 0..100, does not
\* decrease, and does not change once the job is completed or failed.
C6_ProgressMonotone ==
  [][/\ \A j \in DOMAIN jobs' : jobs'[j].progress \in 0..100
     /\ \A j \in DOMAIN jobs :
          /\ jobs'[j].progress >= jobs[j].progress
          /\ jobs[j].status \in Terminal =>
               jobs'[j].progress = jobs[j].progress]_vars

\* a job that failed after reporting progress 60, next to one at 100
C6_Witness ==
  \E j, k \in DOMAIN jobs :
    /\ jobs[j].status = "failed" /\ jobs[j].progress = 60
    /\ jobs[k].progress = 100

\* C7: apply-effect with an effectType that is no key of the registry is
\* answered with an error and leaves the job table and the tasks as they are.
C7_UnknownEffectRejected ==
  [][\A i \in ImageInputs : \A e \in EffectInputs \ EffectKeys :
       ApplyEffect(i, e) =>
         /\ ApplyEffectRejection(i, e).code >= 400
         /\ jobs' = jobs
         /\ turn' = turn]_vars

\* C8: Express: every job created reaches completed or failed: from some
\* point on every job in the table is completed or failed (a job created
\* later is pending at first, so none is left behind).
C8_JobsTerminate ==
  <>[](deploy = "express" /\ \A j \in DOMAIN jobs : jobs[j].status \in Terminal)

\* an Express job ended by the timer while its call is still unanswered
C8_Witness ==
  \E t \in DOMAIN tasks :
    /\ deploy = "express"
    /\ tasks[t].gem = "inflight" /\ tasks[t].pc = "done"
    /\ jobs[tasks[t].job].status = "failed"

\* C9: a job has at most one task, exactly one once the handler has called
\* processImageWithAI for it, and only that task has written its record.
C9_OneWriter ==
  \A j \in DOMAIN jobs :
    /\ Cardinality(TaskOf(j)) =
         IF turn.pc = "created" /\ turn.job = j THEN 0 ELSE 1
    /\ writers[j] \subseteq TaskOf(j)

\* two tasks in flight at once, each having written its own job's record
C9_Witness ==
  \E t, u \in DOMAIN tasks :
    /\ t # u
    /\ tasks[t].pc \notin {"start", "done"} /\ tasks[u].pc \notin {"start", "done"}
    /\ writers[tasks[t].job] = {t} /\ writers[tasks[u].job] = {u}
    /\ jobs[tasks[t].job].progress > 10 /\ jobs[tasks[u].job].progress > 10

\* C10: the reply apply-effect sends for a job carries the job's id, is sent
\* while the job is pending or processing, and is the same ever after.
C10_ResponseImmediate ==
  [][\A j \in DOMAIN response' :
       IF j \in DOMAIN response
         THEN response'[j] = response[j]
         ELSE /\ response'[j] = Reply(200, NoVal, j)
              /\ jobs'[j].status \in NonTerminal]_vars

\* jobs that ended, one way and the other, after their reply was sent
C10_Witness ==
  \E j, k \in DOMAIN response :
    /\ jobs[j].status = "completed" /\ jobs[k].status = "failed"
    /\ response[j].id = j /\ response[k].id = k

\* C11: apply-effect, with the service configured and a known effect, for an
\* imageId under which nothing is stored, is answered with a 4xx and creates
\* no job.
C11_UnknownImageRejected ==
  [][\A i \in ImageInputs \ UploadedIds : \A e \in EffectKeys :
       (ApplyEffect(i, e) /\ Truthy(i) /\ ~GetGeminiModelThrows(genAI, apiKey)) =>
         /\ ApplyEffectRejection(i, e).code \in 400..499
         /\ jobs' = jobs]_vars

\* C12: in every state in which the apply-effect handler can run, every
\* request it would reject is rejected with a 4xx, whatever the configuration
\* of the generative service.
C12_RejectionsAre4xx ==
  Idle =>
    \A i \in ImageInputs : \A e \in EffectInputs :
      ApplyEffectRejection(i, e) # NoReply =>
        ApplyEffectRejection(i, e).code \in 400..499

\* C13: a status poll changes neither the job table nor any job record, an
\* unknown jobId is answered 404 'Job not found', and the reply for a
\* completed or failed job is the same after every step.
C13_PollPureRead ==
  [][/\ \A id \in PollIds :
          Poll(id) => (jobs' = jobs /\ files' = files /\ tasks' = tasks)
     /\ \A id \in PollIds \ DOMAIN jobs :
          StatusReply(id).code = 404 /\ StatusReply(id).error = "Job not found"
     /\ \A j \in DOMAIN jobs :
          jobs[j].status \in Terminal => StatusReply(j)' = StatusReply(j)]_vars

\* polls answer 200 with a resultUrl for a completed job, 200 with an error
\* for a failed one and 404 for an id that names no job
C13_Witness ==
  \E j, k \in DOMAIN jobs :
    /\ StatusReply(j).code = 200 /\ StatusReply(j).status = "completed"
    /\ StatusReply(j).progress = 100
    /\ StatusReply(k).code = 200 /\ StatusReply(k).status = "failed"
    /\ \E id \in PollIds : StatusReply(id).code = 404

\* C14: in every state in which the upload handler can run, an upload that
\* exceeds the size limit or declares a type other than JPEG, PNG or WebP is
\* answered with a 4xx.
C14_LimitRejections4xx ==
  Idle =>
    \A m \in AllMimes, f \in AllFormats, tooLarge \in BOOLEAN :
      (tooLarge \/ m \notin allowedTypes) =>
        UploadRejection(m, f, tooLarge).code \in 400..499

\* C15: in every state in which the upload handler can run, an upload within
\* the limits whose bytes do not decode as an image is answered with a 4xx.
C15_InvalidImage4xx ==
  Idle =>
    \A m \in AllMimes \cap allowedTypes, f \in AllFormats \ Decodable :
      UploadRejection(m, f, FALSE).code \in 400..499

\* C16: an upload whose bytes decode to a format other than JPEG, PNG or WebP
\* stores nothing, whatever type it declares.
C16_DecodedFormatChecked ==
  [][\A m \in AllMimes, x \in AllExts, f \in AllFormats \ {"jpeg", "png", "webp"},
        d \in AllDims :
       Upload(m, x, f, d[1], d[2], FALSE) => files' = files]_vars

C18_ResultUrlServesOwnBytes ==
  \A j \in DOMAIN jobs :
    /\ jobs[j].status # "completed" => StatusReply(j).resultUrl = NoPath
    /\ (jobs[j].status = "completed" /\ \E f \in files : f.kind # "upload" /\ f.of = j) =>
         /\ Fetch(StatusReply(j).resultUrl).code = 200
         /\ Fetch(StatusReply(j).resultUrl).of = j

\* two completed jobs, each served its own result
C18_Witness ==
  \E j, k \in DOMAIN jobs :
    /\ j # k
    /\ jobs[j].status = "completed" /\ jobs[k].status = "completed"
    /\ Fetch(StatusReply(j).resultUrl).of = j
    /\ Fetch(StatusReply(k).resultUrl).of = k

\* C19: with the service configured, apply-effect for a stored upload and
\* effectType 'big_head' is accepted.
C19_BigHeadAccepted ==
  (Idle /\ ~GetGeminiModelThrows(genAI, apiKey)) =>
    \A i \in UploadedIds : ApplyEffectRejection(i, "big_head") = NoReply

\* nothing is stored under the imageId of task t
SourceAbsent(t) == tasks[t].imageId \notin UploadedIds

\* C20: the step in which a task looks for a source that is not in the store
\* fails the job with an error message at the progress it had, 10, without a
\* call of the generative service, and the task does nothing afterwards.
C20_AbsentSourceFails ==
  [][\A t \in DOMAIN tasks :
       /\ (SourceAbsent(t) /\ (ExpressLoad(t) \/ ServerlessFind(t))) =>
            /\ jobs'[tasks[t].job].status = "failed"
            /\ jobs'[tasks[t].job].error # NoVal
            /\ jobs[tasks[t].job].progress = 10
            /\ jobs'[tasks[t].job].progress = 10
            /\ tasks'[t].gem = "none" /\ tasks'[t].pc = "done"
       /\ (tasks[t].pc = "done" /\ tasks[t].gem = "none") => tasks'[t] = tasks[t]]_vars

(* ---------------------------- C21 -------------------------------------- *)
\* a step in which task t calls generateContent
CallsTransformer(t) ==
  /\ t \in DOMAIN tasks'
  /\ tasks'[t].gem = "inflight"
  /\ (t \in DOMAIN tasks => tasks[t].gem # "inflight")

\* C21: the transformer is called at most once per job: a task calls it only
\* while it has made no call yet and its job is not terminal, a call once made
\* is never forgotten, no task is forgotten, and a new task belongs to a job
\* that has no task yet; so no job is retried or resubmitted after a timeout,
\* an error or a response without an image.
C21_TransformerOnce ==
  [][/\ \A t \in DOMAIN tasks :
          /\ t \in DOMAIN tasks'
          /\ tasks'[t].job = tasks[t].job
          /\ (tasks[t].gem # "none" => tasks'[t].gem # "none")
          /\ (CallsTransformer(t) =>
                /\ tasks[t].gem = "none"
                /\ jobs[tasks[t].job].status = "processing")
     /\ \A t \in DOMAIN tasks' \ DOMAIN tasks :
          /\ TaskOf(tasks'[t].job) = {}
          /\ tasks'[t].gem = "none"]_vars

\* a job failed by a response without an image and a job failed by the timer,
\* each after the one call of its task
C21_Witness ==
  /\ \E t \in DOMAIN tasks :
       /\ tasks[t].pc = "done" /\ tasks[t].gem = "settled"
       /\ jobs[tasks[t].job].status = "failed"
       /\ jobs[tasks[t].job].progress = 60
  /\ \E t \in DOMAIN tasks :
       /\ tasks[t].pc = "done" /\ tasks[t].race = "timeout"
       /\ jobs[tasks[t].job].status = "failed"
       /\ jobs[tasks[t].job].error = TimeoutMessage

(* ---------------------------- C22 -------------------------------------- *)
\* C22: in the serverless deployment the generative call is bounded in time:
\* from some point on no job is processing at progress 40, the progress at
\* which the call is awaited, whether or not the call ever returns.
C22_CallBounded ==
  <>[](\A j \in DOMAIN jobs :
         ~(jobs[j].status = "processing" /\ jobs[j].progress = 40))

(* ---------------------------- C23 -------------------------------------- *)
\* C23: the fallback filters are selected by the effect id: when a task is
\* about to apply them, every other effect id of the registry selects a
\* parameter set different from the one the task's effect id selects.
C23_FallbackDistinct ==
  \A t \in DOMAIN tasks :
    tasks[t].pc = "fallback" =>
      \A e \in EffectKeys \ {tasks[t].effectType} :
        FallbackFilter(e) # FallbackFilter(tasks[t].effectType)

(* ---------------------------- C24 -------------------------------------- *)
\* C24: a source file removed between the existence check (Express) or the
\* directory listing (serverless) and the read fails the job: the step of the
\* task that reads leaves the job failed with an error message and the task
\* returned, and no returned task leaves its job processing.
C24_VanishedSourceFails ==
  [][\A t \in DOMAIN tasks :
       LET j == tasks[t].job
       IN /\ (\/ ExpressLoadVanished(t)
              \/ (ServerlessRead(t) /\ tasks[t].found \notin files))
             => /\ jobs'[j].status = "failed"
                /\ jobs'[j].error # NoVal
                /\ tasks'[t].pc = "done"
          /\ (tasks'[t].pc = "done" => jobs'[j].status \in Terminal)]_vars

\* a serverless job failed by the read of a file that was listed and then
\* removed
C24_Witness ==
  \E t \in DOMAIN tasks :
    /\ deploy = "serverless"
    /\ tasks[t].pc = "done"
    /\ jobs[tasks[t].job].status = "failed"
    /\ jobs[tasks[t].job].error = ErrReadNoEntry.text
    /\ jobs[tasks[t].job].originalImagePath # NoPath

(* ---------------------------- C25 -------------------------------------- *)
\* C25: the result file of every completed job holds JPEG-encoded bytes, as
\* its .jpg name and its image/jpeg Content-Type say, whether the bytes are a
\* generated image, a generated image whose optimization failed, or the
\* output of the fallback filters.
C25_ResultIsJpeg ==
  \A j \in DOMAIN jobs :
    jobs[j].status = "completed" =>
      \A f \in files :
        (f.kind \in {"processed", "generated"} /\ f.of = j) => f.enc = "jpeg"

(* ---------------------------- C26 -------------------------------------- *)
\* C26: no status poll observes a job as pending: a poll runs between handler
\* turns, and the turn that creates a job also runs its task up to the first
\* await, which sets status processing and progress 10 (or fails the job).
C26_PendingNeverObserved ==
  Idle => \A id \in PollIds : StatusReply(id).status # "pending"

\* a poll that can observe a job right after its submission was answered:
\* processing at progress 10, its task at the first await
C26_Witness ==
  /\ Idle
  /\ \E t \in DOMAIN tasks :
       /\ tasks[t].pc = FirstAwait
       /\ tasks[t].job \in DOMAIN response
       /\ StatusReply(tasks[t].job).status = "processing"
       /\ StatusReply(tasks[t].job).progress = 10

(* ---------------------------- C27 -------------------------------------- *)
\* C27: in Express the timer is never cancelled; when it fires after the
\* generative call has settled the race, nothing of any job changes (status,
\* progress, result reference, error), no file changes and the task goes on
\* as before; and whenever the timer fires its promise is already part of the
\* race, so its rejection has a handler.
C27_LateTimerHarmless ==
  [][\A t \in DOMAIN tasks :
       (deploy = "express" /\ TimerFire(t)) =>
         /\ tasks[t].race # "none"
         /\ (tasks[t].race = "gemini" =>
               /\ jobs' = jobs
               /\ files' = files
               /\ tasks' = [tasks EXCEPT ![t].timer = "fired"])]_vars

\* the timer has fired after the call won the race, for a job still processing
\* and for a job already completed
C27_Witness ==
  /\ \E t \in DOMAIN tasks :
       /\ tasks[t].timer = "fired" /\ tasks[t].race = "gemini"
       /\ jobs[tasks[t].job].status = "processing"
  /\ \E t \in DOMAIN tasks :
       /\ tasks[t].timer = "fired" /\ tasks[t].race = "gemini"
       /\ jobs[tasks[t].job].status = "completed"

(* ---------------------------- C28 -------------------------------------- *)
\* C28: the source lookup of a task finds the file of every stored upload,
\* whatever the extension of the original file name: the step that looks up
\* an imageId returned by a successful upload, with the file still in the
\* directory, does not fail the job.
C28_UploadedSourceFound ==
  [][\A t \in DOMAIN tasks :
       (/\ ExpressLoad(t) \/ ServerlessFind(t)
        /\ tasks[t].imageId \in UploadedIds)
         => jobs'[tasks[t].job].status # "failed"]_vars

(* ---------------------------- C29 -------------------------------------- *)
\* the media type of an encoding
EncMime(enc) ==
  IF enc = "jpeg" THEN "image/jpeg"
  ELSE IF enc = "png" THEN "image/png"
  ELSE IF enc = "webp" THEN "image/webp"
  ELSE "image/gif"

\* the uploads a task of this deployment can load
Loadable(f) ==
  /\ f.kind = "upload"
  /\ deploy = "express" => \E k \in 1..Len(extensions) : f.ext = extensions[k]

\* the mimeType a task declares to the transformer for the source file f
DeclaredMimeType(f) ==
  IF deploy = "express" THEN ExtMimeType(f.ext) ELSE ServerlessMimeType(f.ext)

\* C29: for every stored upload, the MIME type a task declares to the
\* transformer and the Content-Type under which the file route serves the
\* file are the media type of the encoding of the stored bytes, also when the
\* upload was downscaled and re-encoded.
C29_MimeMatchesEncoding ==
  \A f \in files :
    f.kind = "upload" =>
      /\ Loadable(f) => DeclaredMimeType(f) = EncMime(f.enc)
      /\ ServeFile(FileName(f)).contentType = EncMime(f.enc)

(* ---------------------------- C30 -------------------------------------- *)
\* C30: the Editor page requests the status of its job only until a reply
\* with a terminal status has arrived: every status request is issued while
\* isProcessing is set, which the arrival of completed or failed clears, so
\* none is issued after such a reply.
C30_PollsUntilTerminal == [][ClientTick => client.isProcessing]_vars

====
